---- MODULE Spec2Model ----
(***************************************************************************)
(* Model of app/seed/route.ts: the GET handler that seeds the users table  *)
(* with a retry loop around connect / test / create / seedUsers, and a     *)
(* finally block that ends the connection.  GET keeps its state in local   *)
(* variables, so requests may overlap: every request r has its own pc,     *)
(* sql, attempt, i and so on, and all of them share the database.          *)
(***************************************************************************)
EXTENDS Integers, Sequences, FiniteSets, TLC

VARIABLES
    users,        \* the fixture list imported from ../lib/placeholder-data
    salts,        \* the salts bcrypt.hash may draw
    db,           \* the database: extension, users table, its rows
    conns,        \* every connection object created so far
    tasks,        \* chunk callbacks whose bcrypt.hash is still pending
    pc,           \* pc[r]: position of request r in GET
    sql,          \* sql[r]: GET's variable sql (0 is null, else an index of conns)
    attempt,      \* attempt[r]: GET's variable attempt
    i,            \* i[r]: seedUsers' loop variable i
    err,          \* err[r]: the value caught by catch (error)
    pending,      \* pending[r]: the Response a return statement has produced
    responses,    \* responses[r]: the Responses request r has returned
    invocations,  \* how many times GET has been invoked
    attemptLog,   \* attemptLog[r]: one record per pass through the try block (history)
    waits,        \* waits[r]: the setTimeout delays of request r (history)
    rowsAfter,    \* users rows at each return of a 200 response (history)
    initialRows,  \* users rows before the first invocation (history)
    invocationsLeft, \* how many more times the endpoint will be requested
    faultsLeft    \* failures the environment may still cause (-1: no limit)

\* what no step of the program changes
fixed == <<users, salts, initialRows>>

vars == <<fixed, db, conns, tasks, pc, sql, attempt, i, err, pending,
          responses, invocations, attemptLog, waits, rowsAfter,
          invocationsLeft, faultsLeft>>

(***************************************************************************)
(* Program constants (route.ts lines 6-8, 52).                             *)
(***************************************************************************)
MAX_RETRIES == 3
RETRY_DELAY == 2000
CHUNK_SIZE == 10
SALT_ROUNDS == 10

(***************************************************************************)
(* Bounds of the model.                                                    *)
(***************************************************************************)
MaxUsers == 2
MaxRequests == 2
\* RepeatSpec: the failures the environment may cause, and the largest
\* fixture for which it may cause them
MaxRepeatFaults == 1
MaxRepeatFaultUsers == 1
MaxSalt == 2
\* the fixture size, the failures and the salts of ChunkSpec
MaxChunkUsers == 6
MaxChunkFaults == 1
MaxChunkSalt == 1

Requests == 1..MaxRequests

(***************************************************************************)
(* Fixture data.  placeholder-data is imported, not defined, by route.ts:  *)
(* a user is {id, name, email, password}; ids and emails are distinct.     *)
(* Texts are sequences of naturals, so that a plaintext and a hash are     *)
(* values of one kind and can be compared.                                 *)
(***************************************************************************)
FixtureUser(k) ==
    [id |-> k, name |-> 100 + k, email |-> 200 + k, password |-> <<k, k + 1>>]

FixtureUsers(n) == [k \in 1..n |-> FixtureUser(k)]

(***************************************************************************)
(* bcrypt.hash(password, 10): a salted digest.  The result carries the     *)
(* cost and the salt in front of the digest, as a bcrypt string does;      *)
(* bcrypt.compare recomputes the digest from the salt stored in the hash.  *)
(* Under one salt different passwords have different digests.              *)
(***************************************************************************)
Digest(pw, salt) == [k \in 1..Len(pw) |-> pw[k] * (salt + 1) + salt + k]

BcryptHash(pw, rounds, salt) == <<rounds, salt, Digest(pw, salt)>>

BcryptCompare(pw, h) ==
    /\ Len(h) = 3
    /\ h = BcryptHash(pw, h[1], h[2])

\* variant: the plaintext is stored
HashedPasswordPlain(user, salt) == user.password

HashedPassword(user, salt) == BcryptHash(user.password, SALT_ROUNDS, salt)

(***************************************************************************)
(* Thrown values and Responses.                                            *)
(***************************************************************************)
Error(m) == [isError |-> TRUE, message |-> m]
NoError == [isError |-> FALSE, message |-> ""]

ConnectErr == Error("connect ECONNREFUSED")
TestErr == Error("Connection test failed")
QueryErr == Error("query failed")
HashErr == Error("hash failed")
InsertErr == Error("insert failed")
UniqueErr == Error("duplicate key value violates unique constraint")
EndedErr == Error("CONNECTION_ENDED")

NoResponse == [status |-> 0, body |-> [none |-> ""]]

SuccessResponse ==
    [status |-> 200, body |-> [message |-> "Database seeded successfully"]]

\* variant: the caught error's message is never used
ErrorMessageGeneric(e) == "Database seeding failed after retries"

ErrorMessage(e) ==
    IF e.isError THEN e.message ELSE "Database seeding failed after retries"

\* variant: the Response is built without its status, which then is 200
ErrorResponseNoStatus(e) == [status |-> 200, body |-> [error |-> ErrorMessage(e)]]

ErrorResponse(e) == [status |-> 500, body |-> [error |-> ErrorMessage(e)]]

FallbackResponse ==
    [status |-> 500, body |-> [error |-> "Unexpected error in seeding process"]]

(***************************************************************************)
(* Control-flow tests and arithmetic of GET and seedUsers.                 *)
(***************************************************************************)
LoopCondition(a) == a <= MAX_RETRIES

\* variant: the 500 response is returned only past the last attempt
IsFinalAttemptLate(a) == a > MAX_RETRIES

\* variant: the last retry is given up one attempt early
IsFinalAttemptEarly(a) == a >= MAX_RETRIES - 1

IsFinalAttempt(a) == a >= MAX_RETRIES

\* variant: the same wait after every failed attempt
BackoffDelayConstant(a) == RETRY_DELAY

\* variant: the delay doubles with every attempt
BackoffDelayDoubling(a) == RETRY_DELAY * 2 ^ a

BackoffDelay(a) == RETRY_DELAY * a

Min(a, b) == IF a < b THEN a ELSE b

\* users.slice(i, i + CHUNK_SIZE), as the set of 1-based positions
\* variant: only the first user of a chunk is processed
ChunkIndicesFirst(us, from) == {from + 1}

ChunkIndices(us, from) == (from + 1)..Min(from + CHUNK_SIZE, Len(us))

(***************************************************************************)
(* INSERT INTO users ... ON CONFLICT (id) DO NOTHING on a table whose id   *)
(* is the primary key and whose email is UNIQUE.                           *)
(***************************************************************************)
\* variant: a plain INSERT, a duplicate id is a unique violation
InsertUserStrict(rows, row) ==
    IF \E r \in rows : r.id = row.id \/ r.email = row.email
        THEN [ok |-> FALSE, rows |-> rows, error |-> UniqueErr]
    ELSE [ok |-> TRUE, rows |-> rows \cup {row}, error |-> NoError]

InsertUser(rows, row) ==
    IF \E r \in rows : r.id = row.id
        THEN [ok |-> TRUE, rows |-> rows, error |-> NoError]
    ELSE IF \E r \in rows : r.email = row.email
        THEN [ok |-> FALSE, rows |-> rows, error |-> UniqueErr]
    ELSE [ok |-> TRUE, rows |-> rows \cup {row}, error |-> NoError]

UserRow(user, hashed) ==
    [id |-> user.id, name |-> user.name, email |-> user.email,
     password |-> hashed]

(***************************************************************************)
(* Initial database contents: rows a previous run or another program may   *)
(* have left in users.  They respect the table's two uniqueness rules.     *)
(***************************************************************************)
StaleRow == [id |-> 1, name |-> 300, email |-> 400, password |-> <<1, 2>>]
ExtraRow == [id |-> 50, name |-> 350, email |-> 450, password |-> <<5>>]
ClashRow == [id |-> 60, name |-> 360, email |-> 201, password |-> <<6>>]

InitialDatabases ==
    {[ext |-> FALSE, table |-> FALSE, rows |-> {}]}
    \cup {[ext |-> TRUE, table |-> TRUE, rows |-> rs] :
            rs \in {{}, {StaleRow}, {ExtraRow}, {ClashRow}}}

\* the outcomes the environment can give an awaited step: TRUE is success
Outcomes == IF faultsLeft = 0 THEN {TRUE} ELSE BOOLEAN

AfterOutcome(ok) == IF ok \/ faultsLeft < 0 THEN faultsLeft ELSE faultsLeft - 1

\* the connection object postgres() returns to request r.  owner is the
\* request that created it; tested and tableCreated record that SELECT
\* version() and CREATE TABLE have succeeded on it, issued counts the INSERT
\* statements issued on it (history)
NewConnection(r) ==
    [owner |-> r, state |-> "open", queue |-> <<>>, endCalls |-> 0,
     endFailed |-> FALSE, tested |-> FALSE, tableCreated |-> FALSE,
     issued |-> 0]

InitControl ==
    /\ db \in InitialDatabases
    /\ initialRows = db.rows
    /\ conns = <<>>
    /\ tasks = {}
    /\ pc = [r \in Requests |-> "idle"]
    /\ sql = [r \in Requests |-> 0]
    /\ attempt = [r \in Requests |-> 1]
    /\ i = [r \in Requests |-> 0]
    /\ err = [r \in Requests |-> NoError]
    /\ pending = [r \in Requests |-> NoResponse]
    /\ responses = [r \in Requests |-> <<>>]
    /\ invocations = 0
    /\ attemptLog = [r \in Requests |-> <<>>]
    /\ waits = [r \in Requests |-> <<>>]
    /\ rowsAfter = <<>>

InitProgram ==
    /\ users \in {FixtureUsers(n) : n \in 1..MaxUsers}
    /\ salts = 1..MaxSalt
    /\ InitControl

\* one request, any number of failures
Init ==
    /\ InitProgram
    /\ invocationsLeft = 1
    /\ faultsLeft = -1

\* one request to a fresh database, any number of failures
InitFresh ==
    /\ Init
    /\ ~db.table

\* one request with a fixture of MaxChunkUsers users to a fresh database, at
\* most MaxChunkFaults failures
InitChunks ==
    /\ users = FixtureUsers(MaxChunkUsers)
    /\ salts = 1..MaxChunkSalt
    /\ InitControl
    /\ ~db.table
    /\ invocationsLeft = 1
    /\ faultsLeft \in 0..MaxChunkFaults

\* two requests, which may overlap.  The failures are those the data cause
\* (a clash on email) and, for a fixture of at most MaxRepeatFaultUsers
\* users, at most MaxRepeatFaults failures of the environment
InitRepeat ==
    /\ InitProgram
    /\ invocationsLeft = MaxRequests
    /\ faultsLeft \in
          0..(IF Len(users) <= MaxRepeatFaultUsers THEN MaxRepeatFaults ELSE 0)

(***************************************************************************)
(* GET, lines 71-73: a request arrives and GET is entered with its own     *)
(* sql = null and attempt = 1, whatever the other requests are doing.      *)
(***************************************************************************)
Invoke ==
    /\ invocationsLeft > 0
    /\ invocations < MaxRequests
    /\ invocationsLeft' = invocationsLeft - 1
    /\ invocations' = invocations + 1
    /\ sql' = [sql EXCEPT ![invocations + 1] = 0]
    /\ attempt' = [attempt EXCEPT ![invocations + 1] = 1]
    /\ pc' = [pc EXCEPT ![invocations + 1] = "loop"]
    /\ UNCHANGED <<fixed, db, conns, tasks, i, err, pending, responses,
                   attemptLog, waits, rowsAfter, faultsLeft>>

(***************************************************************************)
(* Line 75, the loop test; lines 141-146, the return after the loop.       *)
(***************************************************************************)
LoopTest(r) ==
    /\ pc[r] = "loop"
    /\ IF LoopCondition(attempt[r])
          THEN /\ pc' = [pc EXCEPT ![r] = "connect"]
               /\ attemptLog' = [attemptLog EXCEPT ![r] = Append(@,
                      [n |-> attempt[r], phase |-> "connect",
                       outcome |-> "running", error |-> ""])]
               /\ UNCHANGED responses
          ELSE /\ pc' = [pc EXCEPT ![r] = "done"]
               /\ responses' = [responses EXCEPT ![r] = Append(@, FallbackResponse)]
               /\ UNCHANGED attemptLog
    /\ UNCHANGED <<fixed, db, conns, tasks, sql, attempt, i, err, pending,
                   invocations, waits, rowsAfter, invocationsLeft, faultsLeft>>

\* the step the current pass through the try block has reached (history)
SetPhase(r, p) ==
    attemptLog' = [attemptLog EXCEPT ![r][Len(attemptLog[r])].phase = p]

(***************************************************************************)
(* Line 78: sql = await createConnection().                                *)
(***************************************************************************)
CreateConnection(r) ==
    /\ pc[r] = "connect"
    /\ \E ok \in Outcomes :
          /\ faultsLeft' = AfterOutcome(ok)
          /\ IF ok
                THEN /\ conns' = Append(conns, NewConnection(r))
                     /\ sql' = [sql EXCEPT ![r] = Len(conns) + 1]
                     /\ pc' = [pc EXCEPT ![r] = "test"]
                     /\ SetPhase(r, "test")
                     /\ UNCHANGED err
                ELSE /\ pc' = [pc EXCEPT ![r] = "catch"]
                     /\ err' = [err EXCEPT ![r] = ConnectErr]
                     /\ UNCHANGED <<conns, sql, attemptLog>>
    /\ UNCHANGED <<fixed, db, tasks, attempt, i, pending, responses,
                   invocations, waits, rowsAfter, invocationsLeft>>

\* variant: the result of testConnection is not looked at
TestConnectionIgnored(r) ==
    /\ pc[r] = "test"
    /\ \E ok \in Outcomes :
          /\ faultsLeft' = AfterOutcome(ok)
          /\ conns' = [conns EXCEPT ![sql[r]].tested = ok]
    /\ pc' = [pc EXCEPT ![r] = "extension"]
    /\ SetPhase(r, "extension")
    /\ UNCHANGED <<fixed, db, tasks, sql, attempt, i, err, pending, responses,
                   invocations, waits, rowsAfter, invocationsLeft>>

(***************************************************************************)
(* Lines 81-83 with testConnection, lines 34-43: a failed SELECT version() *)
(* is caught, false is returned and GET throws 'Connection test failed'.   *)
(***************************************************************************)
TestConnection(r) ==
    /\ pc[r] = "test"
    /\ \E ok \in Outcomes :
          /\ faultsLeft' = AfterOutcome(ok)
          /\ IF ok
                THEN /\ pc' = [pc EXCEPT ![r] = "extension"]
                     /\ conns' = [conns EXCEPT ![sql[r]].tested = TRUE]
                     /\ SetPhase(r, "extension")
                     /\ UNCHANGED err
                ELSE /\ pc' = [pc EXCEPT ![r] = "catch"]
                     /\ err' = [err EXCEPT ![r] = TestErr]
                     /\ UNCHANGED <<conns, attemptLog>>
    /\ UNCHANGED <<fixed, db, tasks, sql, attempt, i, pending, responses,
                   invocations, waits, rowsAfter, invocationsLeft>>

(***************************************************************************)
(* Line 86: CREATE EXTENSION IF NOT EXISTS "uuid-ossp".                    *)
(***************************************************************************)
CreateExtension(r) ==
    /\ pc[r] = "extension"
    /\ \E ok \in Outcomes :
          /\ faultsLeft' = AfterOutcome(ok)
          /\ IF ok
                THEN /\ db' = [db EXCEPT !.ext = TRUE]
                     /\ pc' = [pc EXCEPT ![r] = "table"]
                     /\ SetPhase(r, "table")
                     /\ UNCHANGED err
                ELSE /\ pc' = [pc EXCEPT ![r] = "catch"]
                     /\ err' = [err EXCEPT ![r] = QueryErr]
                     /\ UNCHANGED <<db, attemptLog>>
    /\ UNCHANGED <<fixed, conns, tasks, sql, attempt, i, pending, responses,
                   invocations, waits, rowsAfter, invocationsLeft>>

(***************************************************************************)
(* Lines 89-96: CREATE TABLE IF NOT EXISTS users; line 101 enters          *)
(* seedUsers, whose loop starts at i = 0 (line 48).                        *)
(***************************************************************************)
CreateTable(r) ==
    /\ pc[r] = "table"
    /\ \E ok \in Outcomes :
          /\ faultsLeft' = AfterOutcome(ok)
          /\ IF ok /\ db.ext
                THEN /\ db' = [db EXCEPT !.table = TRUE]
                     /\ conns' = [conns EXCEPT ![sql[r]].tableCreated = TRUE]
                     /\ pc' = [pc EXCEPT ![r] = "seed"]
                     /\ i' = [i EXCEPT ![r] = 0]
                     /\ SetPhase(r, "seed")
                     /\ UNCHANGED err
                ELSE /\ pc' = [pc EXCEPT ![r] = "catch"]
                     /\ err' = [err EXCEPT ![r] = QueryErr]
                     /\ UNCHANGED <<db, conns, i, attemptLog>>
    /\ UNCHANGED <<fixed, tasks, sql, attempt, pending, responses,
                   invocations, waits, rowsAfter, invocationsLeft>>

(***************************************************************************)
(* seedUsers, lines 48-51: the loop test, the slice, and chunk.map, which  *)
(* starts one callback per user of the chunk; each callback runs up to its *)
(* await of bcrypt.hash.  After the loop (line 61) seedUsers returns and   *)
(* GET builds the 200 response (lines 106-111).                            *)
(***************************************************************************)
SeedUsersLoop(r) ==
    /\ pc[r] = "seed"
    /\ IF i[r] < Len(users)
          THEN /\ tasks' = tasks \cup
                      {[conn |-> sql[r], user |-> k] : k \in ChunkIndices(users, i[r])}
               /\ pc' = [pc EXCEPT ![r] = "await"]
               /\ UNCHANGED <<pending, attemptLog>>
          ELSE /\ pending' = [pending EXCEPT ![r] = SuccessResponse]
               /\ pc' = [pc EXCEPT ![r] = "finally"]
               /\ attemptLog' =
                      [attemptLog EXCEPT ![r][Len(attemptLog[r])].outcome = "ok"]
               /\ UNCHANGED tasks
    /\ UNCHANGED <<fixed, db, conns, sql, attempt, i, err, responses,
                   invocations, waits, rowsAfter, invocationsLeft, faultsLeft>>

\* the request that created connection c is suspended in seedUsers' await
\* Promise.all on c
Awaited(c) == pc[conns[c].owner] = "await" /\ sql[conns[c].owner] = c

\* variant: the rejection of a callback never reaches GET
TaskRejectsDropped(c, e) == UNCHANGED <<pc, err>>

\* a callback of chunk.map rejects: Promise.all rejects with the first
\* rejection, seedUsers rethrows it (lines 62-65) and GET catches it; a
\* rejection after Promise.all has settled is dropped
TaskRejects(c, e) ==
    IF Awaited(c)
       THEN /\ pc' = [pc EXCEPT ![conns[c].owner] = "catch"]
            /\ err' = [err EXCEPT ![conns[c].owner] = e]
       ELSE UNCHANGED <<pc, err>>

(***************************************************************************)
(* Line 52 completes for one callback: bcrypt.hash rejects, or it resolves *)
(* with a salted hash and the callback issues the INSERT (line 53) on its  *)
(* connection.  A query issued on a connection that is ending or ended is  *)
(* rejected by the driver.                                                 *)
(***************************************************************************)
HashDone(t) ==
    /\ t \in tasks
    /\ tasks' = tasks \ {t}
    /\ \E ok \in Outcomes, salt \in salts :
          /\ faultsLeft' = AfterOutcome(ok)
          /\ IF ~ok
                THEN /\ TaskRejects(t.conn, HashErr)
                     /\ UNCHANGED conns
             ELSE IF conns[t.conn].state = "open"
                THEN /\ conns' = [conns EXCEPT
                            ![t.conn].issued = @ + 1,
                            ![t.conn].queue = Append(@,
                               UserRow(users[t.user], HashedPassword(users[t.user], salt)))]
                     /\ UNCHANGED <<pc, err>>
             ELSE /\ conns' = [conns EXCEPT ![t.conn].issued = @ + 1]
                  /\ TaskRejects(t.conn, EndedErr)
    /\ UNCHANGED <<fixed, db, sql, attempt, i, pending, responses,
                   invocations, attemptLog, waits, rowsAfter, invocationsLeft>>

(***************************************************************************)
(* Lines 53-57: the connection (max: 1) runs its queries in the order they *)
(* were issued.  When the last callback of the awaited chunk fulfils,      *)
(* Promise.all resolves and the loop goes on with i += CHUNK_SIZE.         *)
(***************************************************************************)
InsertExec(c) ==
    /\ c \in 1..Len(conns)
    /\ conns[c].queue # <<>>
    /\ \E ok \in Outcomes :
          /\ faultsLeft' = AfterOutcome(ok)
          /\ LET res == IF ok /\ db.table
                            THEN InsertUser(db.rows, Head(conns[c].queue))
                            ELSE [ok |-> FALSE, rows |-> db.rows,
                                  error |-> InsertErr]
                 rest == Tail(conns[c].queue)
                 r == conns[c].owner
             IN  /\ db' = [db EXCEPT !.rows = res.rows]
                 /\ conns' = [conns EXCEPT ![c].queue = rest]
                 /\ IF ~res.ok
                       THEN TaskRejects(c, res.error) /\ UNCHANGED i
                    ELSE IF /\ Awaited(c)
                            /\ rest = <<>>
                            /\ ~\E t \in tasks : t.conn = c
                       THEN /\ pc' = [pc EXCEPT ![r] = "seed"]
                            /\ i' = [i EXCEPT ![r] = @ + CHUNK_SIZE]
                            /\ UNCHANGED err
                    ELSE UNCHANGED <<pc, err, i>>
    /\ UNCHANGED <<fixed, tasks, sql, attempt, pending, responses,
                   invocations, attemptLog, waits, rowsAfter, invocationsLeft>>

(***************************************************************************)
(* Lines 113-123: catch.  The final attempt returns the 500 response.      *)
(***************************************************************************)
Catch(r) ==
    /\ pc[r] = "catch"
    /\ attemptLog' = [attemptLog EXCEPT
                         ![r][Len(attemptLog[r])].outcome = "failed",
                         ![r][Len(attemptLog[r])].error = err[r].message]
    /\ IF IsFinalAttempt(attempt[r])
          THEN /\ pending' = [pending EXCEPT ![r] = ErrorResponse(err[r])]
               /\ pc' = [pc EXCEPT ![r] = "finally"]
          ELSE /\ pc' = [pc EXCEPT ![r] = "backoff"]
               /\ UNCHANGED pending
    /\ UNCHANGED <<fixed, db, conns, tasks, sql, attempt, i, err, responses,
                   invocations, waits, rowsAfter, invocationsLeft, faultsLeft>>

(***************************************************************************)
(* Lines 126-127: the wait before the retry, then attempt++.               *)
(***************************************************************************)
Backoff(r) ==
    /\ pc[r] = "backoff"
    /\ waits' = [waits EXCEPT ![r] = Append(@,
                    [after |-> attempt[r], delay |-> BackoffDelay(attempt[r])])]
    /\ attempt' = [attempt EXCEPT ![r] = @ + 1]
    /\ pc' = [pc EXCEPT ![r] = "finally"]
    /\ UNCHANGED <<fixed, db, conns, tasks, sql, i, err, pending, responses,
                   invocations, attemptLog, rowsAfter, invocationsLeft,
                   faultsLeft>>

\* variant: the connection is closed only when GET returns, not between
\* attempts
FinallyOnlyOnReturn(r) ==
    /\ pc[r] = "finally"
    /\ IF sql[r] # 0 /\ pending[r] # NoResponse
          THEN /\ conns' = [conns EXCEPT
                      ![sql[r]].endCalls = @ + 1,
                      ![sql[r]].state = IF @ = "open" THEN "ending" ELSE @]
               /\ pc' = [pc EXCEPT ![r] = "ending"]
          ELSE /\ pc' = [pc EXCEPT ![r] = "exit"]
               /\ UNCHANGED conns
    /\ UNCHANGED <<fixed, db, tasks, sql, attempt, i, err, pending, responses,
                   invocations, attemptLog, waits, rowsAfter, invocationsLeft,
                   faultsLeft>>

\* variant: the connection is ended after the try statement instead of in
\* a finally block, so a return skips it
FinallySkippedByReturn(r) ==
    /\ pc[r] = "finally"
    /\ IF sql[r] # 0 /\ pending[r] = NoResponse
          THEN /\ conns' = [conns EXCEPT
                      ![sql[r]].endCalls = @ + 1,
                      ![sql[r]].state = IF @ = "open" THEN "ending" ELSE @]
               /\ pc' = [pc EXCEPT ![r] = "ending"]
          ELSE /\ pc' = [pc EXCEPT ![r] = "exit"]
               /\ UNCHANGED conns
    /\ UNCHANGED <<fixed, db, tasks, sql, attempt, i, err, pending, responses,
                   invocations, attemptLog, waits, rowsAfter, invocationsLeft,
                   faultsLeft>>

(***************************************************************************)
(* Lines 129-132: finally; sql.end() is called when sql is not null.  The  *)
(* driver stops accepting queries on the connection at once.               *)
(***************************************************************************)
Finally(r) ==
    /\ pc[r] = "finally"
    /\ IF sql[r] # 0
          THEN /\ conns' = [conns EXCEPT
                      ![sql[r]].endCalls = @ + 1,
                      ![sql[r]].state = IF @ = "open" THEN "ending" ELSE @]
               /\ pc' = [pc EXCEPT ![r] = "ending"]
          ELSE /\ pc' = [pc EXCEPT ![r] = "exit"]
               /\ UNCHANGED conns
    /\ UNCHANGED <<fixed, db, tasks, sql, attempt, i, err, pending, responses,
                   invocations, attemptLog, waits, rowsAfter, invocationsLeft,
                   faultsLeft>>

\* what a failed sql.end() leaves of the connection: the driver's promise
\* rejected, and the socket may or may not have been closed
StatesAfterFailedEnd(st) == IF st = "closed" THEN {"closed"} ELSE {"open", "closed"}

\* variant: sql.end() is not wrapped in its own try, so its rejection
\* leaves the finally block and replaces the response
EndSettlesUncaught(r) ==
    /\ pc[r] = "ending"
    /\ \E ok \in Outcomes :
          /\ faultsLeft' = AfterOutcome(ok)
          /\ IF ok
                THEN /\ conns[sql[r]].queue = <<>>
                     /\ conns' = [conns EXCEPT ![sql[r]].state = "closed"]
                     /\ UNCHANGED pending
                ELSE /\ conns' = [conns EXCEPT ![sql[r]].endFailed = TRUE]
                     /\ pending' = [pending EXCEPT ![r] =
                            [status |-> 500, body |-> [error |-> "end failed"]]]
    /\ pc' = [pc EXCEPT ![r] = "exit"]
    /\ UNCHANGED <<fixed, db, tasks, sql, attempt, i, err, responses,
                   invocations, attemptLog, waits, rowsAfter, invocationsLeft>>

(***************************************************************************)
(* Lines 132-136: await sql.end() settles.  It resolves once the queries   *)
(* already issued have finished; a rejection is caught and logged.         *)
(***************************************************************************)
EndSettles(r) ==
    /\ pc[r] = "ending"
    /\ \E ok \in Outcomes :
          /\ faultsLeft' = AfterOutcome(ok)
          /\ IF ok
                THEN /\ conns[sql[r]].queue = <<>>
                     /\ conns' = [conns EXCEPT ![sql[r]].state = "closed"]
                ELSE \E st \in StatesAfterFailedEnd(conns[sql[r]].state) :
                        conns' = [conns EXCEPT
                            ![sql[r]].state = st,
                            ![sql[r]].endFailed = TRUE,
                            ![sql[r]].queue = IF st = "closed" THEN <<>> ELSE @]
    /\ pc' = [pc EXCEPT ![r] = "exit"]
    /\ UNCHANGED <<fixed, db, tasks, sql, attempt, i, err, pending, responses,
                   invocations, attemptLog, waits, rowsAfter, invocationsLeft>>

(***************************************************************************)
(* Line 138: after finally, a pending return completes (the Response is    *)
(* returned), otherwise control goes back to the loop test.                *)
(***************************************************************************)
FinallyExit(r) ==
    /\ pc[r] = "exit"
    /\ IF pending[r] # NoResponse
          THEN /\ responses' = [responses EXCEPT ![r] = Append(@, pending[r])]
               /\ pc' = [pc EXCEPT ![r] = "done"]
               /\ rowsAfter' = IF pending[r].status = 200
                                  THEN Append(rowsAfter, db.rows)
                                  ELSE rowsAfter
          ELSE /\ pc' = [pc EXCEPT ![r] = "loop"]
               /\ UNCHANGED <<responses, rowsAfter>>
    /\ UNCHANGED <<fixed, db, conns, tasks, sql, attempt, i, err, pending,
                   invocations, attemptLog, waits, invocationsLeft, faultsLeft>>

\* the steps of request r after its entry
GetStep(r) ==
    \/ LoopTest(r)
    \/ CreateConnection(r)
    \/ TestConnection(r)
    \/ CreateExtension(r)
    \/ CreateTable(r)
    \/ SeedUsersLoop(r)
    \/ Catch(r)
    \/ Backoff(r)
    \/ Finally(r)
    \/ EndSettles(r)
    \/ FinallyExit(r)

Next ==
    \/ Invoke
    \/ \E r \in Requests : LoopTest(r)
    \/ \E r \in Requests : CreateConnection(r)
    \/ \E r \in Requests : TestConnection(r)
    \/ \E r \in Requests : CreateExtension(r)
    \/ \E r \in Requests : CreateTable(r)
    \/ \E r \in Requests : SeedUsersLoop(r)
    \/ \E t \in tasks : HashDone(t)
    \/ \E c \in 1..Len(conns) : InsertExec(c)
    \/ \E r \in Requests : Catch(r)
    \/ \E r \in Requests : Backoff(r)
    \/ \E r \in Requests : Finally(r)
    \/ \E r \in Requests : EndSettles(r)
    \/ \E r \in Requests : FinallyExit(r)

Spec == Init /\ [][Next]_vars

RepeatSpec == InitRepeat /\ [][Next]_vars

\* a fixture of MaxChunkUsers users
ChunkSpec == InitChunks /\ [][Next]_vars

\* Every awaited step eventually completes: the event loop resumes GET when
\* the promise it awaits has settled, every bcrypt.hash call settles and the
\* connection runs every query it was given.
Fairness ==
    /\ \A r \in Requests : WF_vars(GetStep(r))
    /\ WF_vars(\E t \in tasks : HashDone(t))
    /\ WF_vars(\E c \in 1..Len(conns) : InsertExec(c))

FairSpec == InitFresh /\ [][Next]_vars /\ Fairness

(***************************************************************************)
(* Definitions the properties share.                                       *)
(***************************************************************************)
Returned(r) == pc[r] = "done"

\* the connections createConnection has returned to request r
OwnConnections(r) == {c \in 1..Len(conns) : conns[c].owner = r}

\* end() has been called on c and every such call has resolved or rejected
EndSettled(c) ==
    /\ conns[c].endCalls >= 1
    /\ conns[c].state # "ending"
    /\ ~(pc[conns[c].owner] = "ending" /\ sql[conns[c].owner] = c)

Succeeded(r) == Returned(r) /\ responses[r][1].status = 200

ConnectionErrors == {ConnectErr.message, TestErr.message}

SeedingErrors == {HashErr.message, InsertErr.message, UniqueErr.message}

\* some pass of request r through the try block ran to the return of line 106
SomeAttemptSucceeded(r) ==
    \E k \in 1..Len(attemptLog[r]) : attemptLog[r][k].outcome = "ok"

\* the last pass of request r through the try block
LastAttempt(r) == attemptLog[r][Len(attemptLog[r])]

(***************************************************************************)
(* C1: an invocation of GET returns exactly one response; it has status    *)
(* 200 and a body with `message` exactly when some attempt ran connection  *)
(* test, extension and table creation and seedUsers without error, and     *)
(* status 500 and a body with `error` otherwise.                           *)
(***************************************************************************)
C1_OneResponse ==
    \A r \in Requests :
       /\ ~Returned(r) => responses[r] = <<>>
       /\ Returned(r) =>
             /\ Len(responses[r]) = 1
             /\ IF SomeAttemptSucceeded(r)
                   THEN /\ responses[r][1].status = 200
                        /\ DOMAIN responses[r][1].body = {"message"}
                   ELSE /\ responses[r][1].status = 500
                        /\ DOMAIN responses[r][1].body = {"error"}

\* a 200 answered by the second or third attempt
C1_Witness ==
    /\ Returned(1)
    /\ Len(attemptLog[1]) >= 2
    /\ responses[1][1].status = 200

(***************************************************************************)
(* C2 as stated: when GET returns, no connection created during the        *)
(* invocation is still open.                                               *)
(***************************************************************************)
C2_NoneOpenAtReturn ==
    \A r \in Requests :
       Returned(r) => \A c \in OwnConnections(r) : conns[c].state = "closed"

(***************************************************************************)
(* C2 amended: when GET returns, on every exit path, end() has been called *)
(* on every connection created during the invocation and has settled, and  *)
(* every such connection whose end() did not fail is closed.               *)
(***************************************************************************)
C2_EndSettledAtReturn ==
    \A r \in Requests :
       Returned(r) =>
          \A c \in OwnConnections(r) :
             /\ EndSettled(c)
             /\ conns[c].endFailed \/ conns[c].state = "closed"

\* three connections were created and the retries were exhausted
C2_Witness ==
    /\ Returned(1)
    /\ Cardinality(OwnConnections(1)) = 3
    /\ responses[1][1].status = 500
    /\ \E c \in OwnConnections(1) : conns[c].endFailed

(***************************************************************************)
(* C3 as stated: a failure of hashing or of an insert in seedUsers is not  *)
(* retried; no attempt follows an attempt that failed that way.            *)
(***************************************************************************)
C3_SeedFailureNotRetried ==
    \A r \in Requests :
       \A k \in 1..Len(attemptLog[r]) :
          (/\ attemptLog[r][k].outcome = "failed"
           /\ attemptLog[r][k].error \in SeedingErrors)
             => k = Len(attemptLog[r])

(***************************************************************************)
(* C4: an invocation makes at most MAX_RETRIES attempts, exactly           *)
(* MAX_RETRIES when the connection or the connection test of every attempt *)
(* fails, and none after the first attempt that succeeds.                  *)
(***************************************************************************)
C4_AttemptsBounded ==
    \A r \in Requests :
       /\ Len(attemptLog[r]) <= MAX_RETRIES
       /\ \A k \in 1..Len(attemptLog[r]) :
             /\ attemptLog[r][k].n = k
             /\ attemptLog[r][k].outcome = "ok" => k = Len(attemptLog[r])
       /\ (/\ Returned(r)
           /\ \A k \in 1..Len(attemptLog[r]) :
                 /\ attemptLog[r][k].outcome = "failed"
                 /\ attemptLog[r][k].error \in ConnectionErrors)
             => Len(attemptLog[r]) = MAX_RETRIES

\* every attempt failed to connect or failed its test, and GET returned
C4_Witness ==
    /\ Returned(1)
    /\ Len(attemptLog[1]) = MAX_RETRIES
    /\ \A k \in 1..MAX_RETRIES : attemptLog[1][k].error \in ConnectionErrors
    /\ \E k \in 1..MAX_RETRIES : attemptLog[1][k].phase = "test"

\* rows is the fixture set: one row per fixture user, holding its id, name
\* and email and a hash of its password, and nothing else
IsFixtureTable(rows) ==
    /\ \A k \in 1..Len(users) :
          \E r \in rows :
             \E salt \in salts :
                r = UserRow(users[k], BcryptHash(users[k].password, SALT_ROUNDS, salt))
    /\ Cardinality(rows) = Len(users)

(***************************************************************************)
(* C5 as stated: after two successful invocations, from any initial        *)
(* content, the table holds exactly the fixture rows, and the rows after   *)
(* the second invocation are those after the first.  seedUsers inserts     *)
(* with ON CONFLICT (id) DO NOTHING and nothing deletes a row, so a row    *)
(* the table held before is still there after both invocations.            *)
(***************************************************************************)
C5_ExactlyFixtureRows ==
    Len(rowsAfter) = 2 =>
       /\ rowsAfter[2] = rowsAfter[1]
       /\ IsFixtureTable(rowsAfter[2])

\* what the repeat does leave: the rows after the second successful
\* invocation are those after the first, namely the initial rows, unchanged,
\* and one fixture row for each fixture id the table did not hold
RepeatIsIdempotent ==
    Len(rowsAfter) = 2 =>
       /\ rowsAfter[2] = rowsAfter[1]
       /\ initialRows \subseteq rowsAfter[2]
       /\ \A k \in 1..Len(users) :
             Cardinality({r \in rowsAfter[2] : r.id = users[k].id}) = 1
       /\ \A r \in rowsAfter[2] \ initialRows :
             \E k \in 1..Len(users), salt \in salts :
                /\ ~\E r0 \in initialRows : r0.id = users[k].id
                /\ r = UserRow(users[k],
                               BcryptHash(users[k].password, SALT_ROUNDS, salt))
       /\ initialRows = {} => IsFixtureTable(rowsAfter[2])

(***************************************************************************)
(* C6: every invocation of GET eventually returns a response, whatever the *)
(* outcomes of connecting, testing, hashing, inserting and closing, when   *)
(* every awaited step eventually completes.                                *)
(***************************************************************************)
C6_EventuallyReturns == \A r \in Requests : (pc[r] = "loop") ~> Returned(r)

\* an invocation that went through every retry has returned
C6_Witness ==
    /\ Returned(1)
    /\ Len(attemptLog[1]) = MAX_RETRIES
    /\ Len(waits[1]) = MAX_RETRIES - 1

RECURSIVE SumDelays(_)
SumDelays(ws) == IF ws = <<>> THEN 0 ELSE Head(ws).delay + SumDelays(Tail(ws))

(***************************************************************************)
(* C7: the backoff waits of one invocation add up to at most MAX_RETRIES * *)
(* RETRY_DELAY, and no wait follows the final failed attempt.              *)
(***************************************************************************)
C7_BackoffBounded ==
    \A r \in Requests :
       /\ SumDelays(waits[r]) <= MAX_RETRIES * RETRY_DELAY
       /\ \A k \in 1..Len(waits[r]) : waits[r][k].after < MAX_RETRIES
       /\ Returned(r) => Len(waits[r]) = Len(attemptLog[r]) - 1

\* the retries were exhausted: two waits, 2000 and 4000
C7_Witness ==
    /\ Returned(1)
    /\ Len(waits[1]) = MAX_RETRIES - 1
    /\ SumDelays(waits[1]) = MAX_RETRIES * RETRY_DELAY
    /\ responses[1][1].status = 500

\* the response the outcomes of the steps other than close call for
ResponseFor(log) ==
    IF log[Len(log)].outcome = "ok"
       THEN SuccessResponse
       ELSE [status |-> 500, body |-> [error |-> log[Len(log)].error]]

(***************************************************************************)
(* C8: a failure of sql.end() never changes the response and never causes  *)
(* another attempt: the step in which end() settles leaves the pending     *)
(* response, the attempt counter and the caught error as they are,         *)
(* whichever way it settles, and the response returned is the one the      *)
(* outcomes of the other steps determine.                                  *)
(***************************************************************************)
C8_CloseFailureIgnored ==
    /\ [][\A r \in Requests :
             (pc[r] = "ending" /\ pc'[r] # "ending") =>
                /\ pc'[r] = "exit"
                /\ pending'[r] = pending[r]
                /\ attempt'[r] = attempt[r]
                /\ err'[r] = err[r]
                /\ attemptLog'[r] = attemptLog[r]
                /\ responses'[r] = responses[r]]_vars
    /\ [](\A r \in Requests :
             Returned(r) => responses[r][1] = ResponseFor(attemptLog[r]))

\* a 200 was returned although the close of a connection failed
C8_Witness ==
    /\ Returned(1)
    /\ responses[1][1].status = 200
    /\ \E c \in OwnConnections(1) : conns[c].endFailed

(***************************************************************************)
(* C9: a 500 response carries the message of the error of the final, the   *)
(* MAX_RETRIES-th, attempt, not that of an earlier one, and a failed       *)
(* connection test is reported as 'Connection test failed'.                *)
(***************************************************************************)
C9_FinalErrorReported ==
    \A r \in Requests :
       (Returned(r) /\ responses[r][1].status = 500) =>
          /\ Len(attemptLog[r]) = MAX_RETRIES
          /\ attemptLog[r][MAX_RETRIES].n = MAX_RETRIES
          /\ attemptLog[r][MAX_RETRIES].outcome = "failed"
          /\ responses[r][1].body.error = attemptLog[r][MAX_RETRIES].error
          /\ attemptLog[r][MAX_RETRIES].phase = "test"
                => responses[r][1].body.error = "Connection test failed"

\* the final attempt failed its connection test after an attempt that
\* failed otherwise
C9_Witness ==
    /\ Returned(1)
    /\ responses[1][1].status = 500
    /\ attemptLog[1][MAX_RETRIES].phase = "test"
    /\ attemptLog[1][1].error = HashErr.message

\* the rows seedUsers has written
WrittenRows == db.rows \ initialRows

(***************************************************************************)
(* C10: every row seedUsers writes to users holds a hash of the fixture    *)
(* user's password: it is bcrypt.hash of the plaintext, differs from the   *)
(* plaintext and verifies against it; after a successful invocation every  *)
(* fixture user whose id the table did not hold has such a row.            *)
(***************************************************************************)
C10_PasswordsHashed ==
    /\ \A r \in WrittenRows :
          \E k \in 1..Len(users) :
             /\ r.id = users[k].id
             /\ r.password # users[k].password
             /\ BcryptCompare(users[k].password, r.password)
             /\ \E salt \in salts :
                   r.password = BcryptHash(users[k].password, SALT_ROUNDS, salt)
    /\ \A q \in Requests :
          Succeeded(q) =>
             \A k \in 1..Len(users) :
                (\E r \in initialRows : r.id = users[k].id)
                   \/ (\E r \in WrittenRows : r.id = users[k].id)

\* a successful invocation has written the rows of two users
C10_Witness ==
    /\ Succeeded(1)
    /\ Cardinality(WrittenRows) >= 2

\* the operations of seedUsers' callbacks that have started on connection c
\* and not finished: a pending bcrypt.hash or an INSERT not yet run
InFlight(c) ==
    Cardinality({t \in tasks : t.conn = c}) + Len(conns[c].queue)

\* a step in which an INSERT is issued on connection c: line 53 is executed
InsertIssued(c) == conns'[c].issued > conns[c].issued

(***************************************************************************)
(* C11: within an attempt the phases follow one another only in the order  *)
(* connecting, verifying, seeding, closing.  Extension and table creation  *)
(* and the inserts are issued only on a connection whose test returned     *)
(* true, an insert only on a connection on which the creation of users has *)
(* completed, and every attempt, in whichever phase it stopped, ends in    *)
(* the finally block, which calls end() on the connection sql refers to:   *)
(* the attempt's own connection whenever the attempt got one.              *)
(***************************************************************************)
C11_PhaseOrder ==
    /\ [](\A r \in Requests :
             /\ pc[r] \in {"extension", "table", "seed", "await"} =>
                   conns[sql[r]].tested /\ conns[sql[r]].owner = r
             /\ pc[r] \in {"seed", "await"} => conns[sql[r]].tableCreated
             /\ (pc[r] = "finally" /\ LastAttempt(r).phase # "connect") =>
                   /\ sql[r] # 0
                   /\ \A c \in OwnConnections(r) : c <= sql[r])
    /\ [](\A c \in 1..Len(conns) :
             InFlight(c) > 0 => conns[c].tested /\ conns[c].tableCreated)
    /\ [][\A c \in 1..Len(conns) :
             InsertIssued(c) => conns[c].tested /\ conns[c].tableCreated]_vars
    /\ [][\A r \in Requests :
            pc'[r] # pc[r] =>
              /\ pc'[r] = "loop" => pc[r] \in {"idle", "exit"}
              /\ pc'[r] = "connect" => pc[r] = "loop"
              /\ pc'[r] = "test" => pc[r] = "connect"
              /\ pc'[r] = "extension" => pc[r] = "test"
              /\ pc'[r] = "table" => pc[r] = "extension"
              /\ pc'[r] = "seed" => pc[r] \in {"table", "await"}
              /\ pc'[r] = "await" => pc[r] = "seed"
              /\ pc'[r] = "catch" =>
                    pc[r] \in {"connect", "test", "extension", "table", "await"}
              /\ pc'[r] = "backoff" => pc[r] = "catch"
              /\ pc'[r] = "finally" => pc[r] \in {"seed", "catch", "backoff"}
              /\ pc'[r] = "ending" =>
                    /\ pc[r] = "finally" /\ sql[r] # 0
                    /\ conns'[sql[r]].endCalls = conns[sql[r]].endCalls + 1
              /\ pc'[r] = "exit" =>
                    pc[r] = "ending" \/ (pc[r] = "finally" /\ sql[r] = 0)
              /\ pc'[r] = "done" => pc[r] = "exit"]_vars

\* an attempt that stopped in the verifying phase is being closed, after an
\* attempt that stopped in the seeding phase
C11_Witness ==
    /\ pc[1] = "ending"
    /\ Len(attemptLog[1]) = 2
    /\ attemptLog[1][1].phase = "seed"
    /\ attemptLog[1][2].phase = "test"
    /\ attemptLog[1][2].outcome = "failed"
    /\ db.rows # initialRows

(***************************************************************************)
(* C12: retries are sequential with a growing delay.  A new attempt is     *)
(* started only when the attempt before it has failed and its backoff wait *)
(* has elapsed, so at most one attempt of an invocation, the last, is      *)
(* running; the wait after failed attempt k is RETRY_DELAY * k, each wait  *)
(* strictly longer than the one before.                                    *)
(***************************************************************************)
C12_SequentialRetries ==
    /\ [](\A r \in Requests :
             /\ \A k \in 1..Len(attemptLog[r]) :
                   /\ attemptLog[r][k].n = k
                   /\ k < Len(attemptLog[r]) =>
                         /\ attemptLog[r][k].outcome = "failed"
                         /\ k <= Len(waits[r])
             /\ \A k \in 1..Len(waits[r]) :
                   /\ waits[r][k] = [after |-> k, delay |-> RETRY_DELAY * k]
                   /\ attemptLog[r][k].outcome = "failed"
                   /\ k > 1 => waits[r][k].delay > waits[r][k - 1].delay)
    /\ [][\A r \in Requests :
             /\ (/\ Len(attemptLog'[r]) = Len(attemptLog[r]) + 1
                 /\ Len(attemptLog[r]) >= 1) =>
                   /\ LastAttempt(r).outcome = "failed"
                   /\ Len(waits[r]) = Len(attemptLog[r])
                   /\ pc[r] = "loop"
             /\ Len(waits'[r]) = Len(waits[r]) + 1 =>
                   /\ pc[r] = "backoff"
                   /\ Len(waits'[r]) = Len(attemptLog[r])
                   /\ attempt'[r] = attempt[r] + 1]_vars

\* the third attempt has started after two failed attempts and two waits
C12_Witness ==
    /\ Len(attemptLog[1]) = 3
    /\ Len(waits[1]) = 2
    /\ waits[1][2].delay = 2 * RETRY_DELAY
    /\ attemptLog[1][3].outcome = "running"

\* a step in which connection c runs the INSERT at the head of its queue
InsertRuns(c) ==
    /\ conns[c].queue # <<>>
    /\ conns'[c].queue = Tail(conns[c].queue)
    /\ conns'[c].state = conns[c].state

(***************************************************************************)
(* C13: an INSERT of a fixture user whose id is already in the users table *)
(* is a no-op.  The table is left as it was, whatever the name, email and  *)
(* password of the existing row, and the insert is not what makes the      *)
(* attempt fail: it is rejected only when the query itself cannot be run.  *)
(* Hence every row the table had when GET was called is still there.       *)
(***************************************************************************)
C13_ConflictIsNoOp ==
    /\ [][\A c \in 1..Len(conns) :
             (InsertRuns(c) /\
              \E r \in db.rows : r.id = Head(conns[c].queue).id) =>
                /\ db' = db
                /\ (/\ pc'[conns[c].owner] = "catch"
                    /\ pc[conns[c].owner] # "catch") =>
                      err'[conns[c].owner] = InsertErr
                /\ InsertUser(db.rows, Head(conns[c].queue)) =
                      [ok |-> TRUE, rows |-> db.rows, error |-> NoError]]_vars
    /\ [](initialRows \subseteq db.rows)

\* GET has succeeded on a table that held a row with the id of fixture user 1
\* and another name and email
C13_Witness ==
    /\ Succeeded(1)
    /\ StaleRow \in initialRows
    /\ StaleRow \in db.rows
    /\ users[1].id = StaleRow.id
    /\ users[1].email # StaleRow.email
    /\ Cardinality(db.rows) = Len(users)

\* the columns of a row that do not depend on the salt bcrypt drew
Columns(r) == [id |-> r.id, name |-> r.name, email |-> r.email]

\* the fixture users whose id the table did not hold when GET was called
NewUsers == {k \in 1..Len(users) : ~\E r \in initialRows : r.id = users[k].id}

\* the table a successful GET leaves when every hash uses the salt given
SeededRows(salt) ==
    initialRows \cup {UserRow(users[k], HashedPassword(users[k], salt)) : k \in NewUsers}

(***************************************************************************)
(* C14 as stated: after a successful GET the set of rows is the same in    *)
(* every run from the same initial table and fixtures, whatever the order  *)
(* in which the hash and insert operations of a chunk completed.  Stated   *)
(* for the run in which every hash drew the first salt, whose table is     *)
(* SeededRows(1).  The salts are drawn per bcrypt.hash call, and which     *)
(* call's row reaches the table depends on what completed before a failed  *)
(* attempt was given up, so the password column differs between runs.      *)
(***************************************************************************)
C14_SameFinalRows == \A q \in Requests : Succeeded(q) => db.rows = SeededRows(1)

(***************************************************************************)
(* C14 amended: after a successful GET the rows are the same in every run  *)
(* up to the salt of the stored hashes.  The initial rows are kept, every  *)
(* new fixture user has exactly one row with its own id, name and email,   *)
(* and the stored password verifies against the fixture's password.        *)
(***************************************************************************)
C14_SameRowsUpToSalt ==
    \A q \in Requests :
       Succeeded(q) =>
          /\ initialRows \subseteq db.rows
          /\ {Columns(r) : r \in db.rows} =
                {Columns(r) : r \in initialRows} \cup {Columns(users[k]) : k \in NewUsers}
          /\ Cardinality(db.rows) = Cardinality(initialRows) + Cardinality(NewUsers)
          /\ \A r \in WrittenRows :
                \E k \in NewUsers :
                   /\ Columns(r) = Columns(users[k])
                   /\ BcryptCompare(users[k].password, r.password)

\* a successful GET, after a failed attempt, whose two new rows carry
\* different salts
C14_Witness ==
    /\ Succeeded(1)
    /\ Len(attemptLog[1]) >= 2
    /\ Cardinality(NewUsers) = 2
    /\ \E r1, r2 \in WrittenRows : r1.password[2] # r2.password[2]
    /\ db.rows # SeededRows(1)
    /\ db.rows # SeededRows(2)

RECURSIVE QueuedInserts(_)
\* the INSERTs waiting on connections 1..n
QueuedInserts(n) ==
    IF n = 0 THEN 0 ELSE Len(conns[n].queue) + QueuedInserts(n - 1)

\* all user operations in flight, on whichever connection
TotalInFlight == Cardinality(tasks) + QueuedInserts(Len(conns))

\* seedUsers inside one attempt: a chunk is dispatched only when nothing of
\* this attempt is in flight and every user before it has a row, the chunk
\* is users.slice(i, i + CHUNK_SIZE), and this attempt's operations in flight
\* are at most CHUNK_SIZE
BarrierWithinAttempt ==
    /\ [](\A r \in Requests :
             pc[r] \in {"seed", "await"} =>
                /\ InFlight(sql[r]) <= CHUNK_SIZE
                /\ \A k \in 1..Min(i[r], Len(users)) :
                      \E row \in db.rows : row.id = users[k].id)
    /\ [][\A r \in Requests :
             (pc[r] = "seed" /\ pc'[r] = "await") =>
                /\ InFlight(sql[r]) = 0
                /\ LastAttempt(r).outcome = "running"
                /\ tasks' \ tasks =
                      {[conn |-> sql[r], user |-> k] :
                          k \in (i[r] + 1)..Min(i[r] + CHUNK_SIZE, Len(users))}
                /\ Cardinality(tasks' \ tasks) <= CHUNK_SIZE]_vars
    /\ [][tasks' # tasks /\ tasks \subseteq tasks' =>
             \E r \in Requests : pc[r] = "seed" /\ pc'[r] = "await"]_vars

(***************************************************************************)
(* C15 as stated: seedUsers works in chunks of at most CHUNK_SIZE users    *)
(* with a barrier between chunks, a failure stops the later chunks of the  *)
(* attempt, and at any time at most CHUNK_SIZE user operations are in      *)
(* flight.  The operations Promise.all left behind when it rejected are    *)
(* still in flight when the next attempt dispatches its first chunk.       *)
(***************************************************************************)
C15_ChunkBarrier ==
    /\ BarrierWithinAttempt
    /\ [](TotalInFlight <= CHUNK_SIZE)

(***************************************************************************)
(* C16 as stated: once sql.end() has been called on a connection no user   *)
(* insert is issued on it or still in flight on it; when Promise.all       *)
(* rejects, the other operations of the chunk have all finished before the *)
(* finally block closes the connection.  Promise.all rejects with the      *)
(* first failure and the callbacks still hashing are not waited for.       *)
(***************************************************************************)
C16_NoWorkAfterEnd ==
    /\ [](\A c \in 1..Len(conns) : conns[c].endCalls >= 1 => InFlight(c) = 0)
    /\ [][\A c \in 1..Len(conns) :
             InsertIssued(c) => conns[c].endCalls = 0]_vars

\* the connections that are not closed
NotClosed == {c \in 1..Len(conns) : conns[c].state # "closed"}

\* during the backoff wait the connection of the failed attempt is open and
\* end() has not been called on it; end() is called in the finally block
\* only; createConnection runs when every end() the invocation has called
\* so far has settled
CloseAfterBackoff ==
    /\ [](\A r \in Requests :
             /\ (pc[r] = "backoff" /\ LastAttempt(r).phase # "connect") =>
                   /\ sql[r] # 0
                   /\ \A c \in OwnConnections(r) : c <= sql[r]
                   /\ conns[sql[r]].state = "open"
                   /\ conns[sql[r]].endCalls = 0
             /\ pc[r] = "connect" => \A c \in OwnConnections(r) : EndSettled(c))
    /\ [][\A c \in 1..Len(conns) :
             conns'[c].endCalls # conns[c].endCalls =>
                /\ pc[conns[c].owner] = "finally"
                /\ pc'[conns[c].owner] = "ending"
                /\ c = sql[conns[c].owner]]_vars

(***************************************************************************)
(* C17 as stated: at any time at most one connection is open; the          *)
(* connection of a failed attempt stays open during the backoff wait, its  *)
(* close is attempted only afterwards and always before createConnection   *)
(* of the next attempt.  A close that rejects is only logged and can leave *)
(* the connection open when the next attempt opens another one.            *)
(***************************************************************************)
C17_AtMostOneOpen ==
    /\ [](Cardinality(NotClosed) <= 1)
    /\ CloseAfterBackoff

(***************************************************************************)
(* C17 amended: of the connections of one invocation, at any time at most  *)
(* one is open whose end() has not rejected, and it is the one sql refers  *)
(* to; connections left open by a rejected end() may exist beside it.  The *)
(* order of backoff, close and createConnection is as stated.              *)
(***************************************************************************)
C17_OneLiveConnection ==
    /\ [](\A r \in Requests :
             LET live == {c \in NotClosed \cap OwnConnections(r) :
                             ~conns[c].endFailed}
             IN  live \subseteq {sql[r]} /\ Cardinality(live) <= 1)
    /\ CloseAfterBackoff

\* the second attempt is in its backoff wait with its connection open, after
\* the first attempt's connection was closed
C17_Witness ==
    /\ pc[1] = "backoff"
    /\ Len(conns) = 2
    /\ sql[1] = 2
    /\ conns[2].state = "open"
    /\ conns[2].endCalls = 0
    /\ conns[1].state = "closed"
    /\ conns[1].endCalls = 1

(***************************************************************************)
(* C18 as stated: during an invocation sql.end() is called at most once on *)
(* each connection object, also when createConnection fails in a later     *)
(* attempt while sql still refers to the closed connection of the attempt  *)
(* before.  In that case the finally block finds sql set and calls end()   *)
(* on the old connection again.                                            *)
(***************************************************************************)
C18_EndCalledOnce == \A c \in 1..Len(conns) : conns[c].endCalls <= 1

(***************************************************************************)
(* C19: the fallback response after the while loop is unreachable.  At     *)
(* every test of the loop condition 1 <= attempt <= MAX_RETRIES, attempt   *)
(* is incremented only while attempt < MAX_RETRIES, and GET returns only   *)
(* from the try statement: the 200 response or the 500 response of the     *)
(* final attempt, never the response of lines 141-146.                     *)
(***************************************************************************)
C19_FallbackUnreachable ==
    /\ [](\A r \in Requests :
             /\ 1 <= attempt[r] /\ attempt[r] <= MAX_RETRIES
             /\ pc[r] = "loop" => LoopCondition(attempt[r])
             /\ \A k \in 1..Len(responses[r]) :
                   responses[r][k] # FallbackResponse)
    /\ [][\A r \in Requests :
             /\ attempt'[r] # attempt[r] =>
                   attempt[r] < MAX_RETRIES /\ attempt'[r] = attempt[r] + 1
             /\ (pc'[r] = "done" /\ pc[r] # "done") =>
                   /\ pc[r] = "exit"
                   /\ pending[r] # NoResponse
                   /\ pending[r] # FallbackResponse
                   /\ (pending[r] = SuccessResponse \/ IsFinalAttempt(attempt[r]))]_vars

\* the loop condition is tested for the last attempt
C19_Witness ==
    /\ pc[1] = "loop"
    /\ attempt[1] = MAX_RETRIES
    /\ Len(attemptLog[1]) = MAX_RETRIES - 1

====
